---- MODULE Spec2Model ----
(***************************************************************************)
(* Model of the maze-mapping engine of src/src/map.rs (struct Maze).       *)
(* State: the fields of Maze, plus the outcome of the last call (op, ret,  *)
(* status) and one history variable (blackened).                           *)
(***************************************************************************)
EXTENDS Integers, Sequences, FiniteSets, TLC

VARIABLES
  dir,              \* Maze.dir
  pos,              \* Maze.pos
  last_checkpoint,  \* Maze.last_checkpoint
  cells,            \* Maze.cells: key |-> [pos, kind, neighbors]
  path,             \* Maze.path
  status,           \* "ok", or how the last call ended the program: "panic", "overflow"
  op,               \* the call made last
  ret,              \* what move_one returned: a direction or "None" ("-" for other calls)
  blackened,        \* history: the keys add_black has classified Black
  steps,            \* the number of calls made so far
  running,          \* MPU6050.running
  caller,           \* where the thread that owns the MPU6050 is
  reader,           \* where the thread spawned by MPU6050::run is
  rounds,           \* the rounds of the read loop completed (counted up to MaxRounds)
  open_dirs         \* test_mapping: the open directions the user reports at each position
                    \* of the maze the loop runs in (the empty function outside the loop)

vars == <<dir, pos, last_checkpoint, cells, path, status, op, ret, blackened, steps,
          running, caller, reader, rounds, open_dirs>>

maze_vars == <<dir, pos, last_checkpoint, cells, path, status, op, ret, blackened, steps,
              open_dirs>>

mpu_vars == <<running, caller, reader, rounds>>

\* Bounds of the model
MaxCells == 5
StackLimit == 2
MaxSteps == 8
MaxRounds == 2
MaxLoopSteps == 24

Directions == {"Up", "Down", "Left", "Right"}

Kinds == {"Start", "Unknown", "Empty", "Checkpoint", "Blue", "Victim", "Ramp", "Black"}

right_slip(d) ==
  CASE d = "Up" -> "Right"
    [] d = "Down" -> "Right"
    [] d = "Left" -> "Up"
    [] d = "Right" -> "Down"

\* Direction::right
right(d) ==
  CASE d = "Up" -> "Right"
    [] d = "Down" -> "Left"
    [] d = "Left" -> "Up"
    [] d = "Right" -> "Down"

\* Direction::left
left(d) ==
  CASE d = "Up" -> "Left"
    [] d = "Down" -> "Right"
    [] d = "Left" -> "Down"
    [] d = "Right" -> "Up"

\* Direction::back
back(d) ==
  CASE d = "Up" -> "Down"
    [] d = "Down" -> "Up"
    [] d = "Left" -> "Right"
    [] d = "Right" -> "Left"

StepFlipped(p, d) ==
  CASE d = "Up" -> <<p[1], p[2] + 1>>
    [] d = "Down" -> <<p[1], p[2] - 1>>
    [] d = "Left" -> <<p[1] - 1, p[2]>>
    [] d = "Right" -> <<p[1] + 1, p[2]>>

\* The position one step from p in direction d (the match of add_cell and move_one)
Step(p, d) ==
  CASE d = "Up" -> <<p[1], p[2] - 1>>
    [] d = "Down" -> <<p[1], p[2] + 1>>
    [] d = "Left" -> <<p[1] - 1, p[2]>>
    [] d = "Right" -> <<p[1] + 1, p[2]>>

\* Cell::new
NewCell(p, k) == [pos |-> p, kind |-> k, neighbors |-> <<>>]

add_neighbor_inverted(cell, d, npos) ==
  IF d \notin DOMAIN cell.neighbors
    THEN cell
    ELSE [cell EXCEPT !.neighbors = (d :> npos) @@ @]

\* Cell::add_neighbor: the first link of a direction wins
add_neighbor(cell, d, npos) ==
  IF d \in DOMAIN cell.neighbors
    THEN cell
    ELSE [cell EXCEPT !.neighbors = (d :> npos) @@ @]

\* Maze::coordinate_to_direction, "panic" for panic!("Invalid position!")
coordinate_to_direction(self_pos, p) ==
  IF p[1] = self_pos[1] /\ p[2] = self_pos[2] - 1 THEN "Up"
  ELSE IF p[1] = self_pos[1] /\ p[2] = self_pos[2] + 1 THEN "Down"
  ELSE IF p[1] = self_pos[1] - 1 /\ p[2] = self_pos[2] THEN "Left"
  ELSE IF p[1] = self_pos[1] + 1 /\ p[2] = self_pos[2] THEN "Right"
  ELSE "panic"

RECURSIVE Perms(_)
\* The orders in which a HashMap with key set S may be iterated
Perms(S) ==
  IF S = {} THEN {<<>>}
  ELSE UNION {{<<x>> \o s : s \in Perms(S \ {x})} : x \in S}

TraversableAny(cs, n) == n \in DOMAIN cs

\* bfs: a neighbor is enqueued only if its cell exists and is not Black
Traversable(cs, n) == n \in DOMAIN cs /\ cs[n].kind # "Black"

RECURSIVE VisitNeighbors(_, _, _, _)
\* bfs: the for loop over cell.neighbors.values(), taken in the order ns
VisitNeighbors(cs, current, ns, st) ==
  IF ns = <<>> THEN st
  ELSE LET n == Head(ns)
           st1 == IF n \notin st.visited /\ Traversable(cs, n)
                    THEN [queue |-> Append(st.queue, n),
                          visited |-> st.visited \cup {n},
                          parent |-> (n :> current) @@ st.parent]
                    ELSE st
       IN VisitNeighbors(cs, current, Tail(ns), st1)

RECURSIVE BfsLoop(_, _, _, _)
\* bfs: the while loop; the set of its possible results (found, target, parent)
BfsLoop(cs, p, tar, st) ==
  IF st.queue = <<>> THEN {[found |-> FALSE, target |-> <<0, 0>>, parent |-> st.parent]}
  ELSE LET current == Head(st.queue)
           st0 == [st EXCEPT !.queue = Tail(st.queue)]
       IN IF current \notin DOMAIN cs THEN BfsLoop(cs, p, tar, st0)
          ELSE IF cs[current].kind = tar
            THEN {[found |-> TRUE, target |-> current, parent |-> st.parent]}
            ELSE UNION {BfsLoop(cs, p, tar,
                           VisitNeighbors(cs, current,
                              [i \in 1..Len(o) |-> cs[current].neighbors[o[i]]], st0))
                        : o \in Perms(DOMAIN cs[current].neighbors)}

RECURSIVE PathToUnreversed(_, _, _)
PathToUnreversed(parent, current, p) ==
  IF current = p THEN <<>>
  ELSE <<current>> \o PathToUnreversed(parent, parent[current], p)

RECURSIVE PathTo(_, _, _)
\* bfs: the walk over the parent pointers, reversed
PathTo(parent, current, p) ==
  IF current = p THEN <<>>
  ELSE Append(PathTo(parent, parent[current], p), current)

\* bfs: the paths the search of target kind tar can reconstruct
BfsPaths(cs, p, tar) ==
  {IF r.found THEN PathTo(r.parent, r.target, p) ELSE <<>> :
     r \in BfsLoop(cs, p, tar, [queue |-> <<p>>, visited |-> {p}, parent |-> <<>>])}

bfs_no_home(cs, p, tar, depth) ==
  {IF Len(pth) > 0 THEN [tag |-> "Some", path |-> pth] ELSE [tag |-> "None"]
     : pth \in BfsPaths(cs, p, tar)}

RECURSIVE bfs(_, _, _, _)
\* Maze::bfs at recursion depth depth: Some(path), None, or a stack overflow
bfs(cs, p, tar, depth) ==
  IF depth > StackLimit THEN {[tag |-> "overflow"]}
  ELSE UNION {IF Len(pth) > 0 THEN {[tag |-> "Some", path |-> pth]}
              ELSE {IF r.tag = "Some"
                      THEN (IF Len(r.path) > 0 THEN r ELSE [tag |-> "None"])
                      ELSE r : r \in bfs(cs, p, "Start", depth + 1)}
              : pth \in BfsPaths(cs, p, tar)}

ScanOrderStraightFirst(d) == <<d, right(d), left(d), back(d)>>

\* get_direction: the local scan right, straight, left, back
ScanOrder(d) == <<right(d), d, left(d), back(d)>>

UnknownNeighbor(cs, p, d) ==
  /\ d \in DOMAIN cs[p].neighbors
  /\ cs[p].neighbors[d] \in DOMAIN cs
  /\ cs[cs[p].neighbors[d]].kind = "Unknown"

Scan(cs, p, d) ==
  IF p \notin DOMAIN cs THEN "none"
  ELSE LET so == ScanOrder(d)
           hits == {i \in 1..4 : UnknownNeighbor(cs, p, so[i])}
       IN IF hits = {} THEN "none"
          ELSE so[CHOOSE i \in hits : \A j \in hits : i <= j]

get_direction_scan_first(cs, p, d, pth) ==
  IF Scan(cs, p, d) # "none"
    THEN {[tag |-> "Some", dir |-> Scan(cs, p, d), path |-> pth]}
  ELSE IF pth # <<>>
    THEN LET c == coordinate_to_direction(p, Head(pth))
         IN IF c = "panic" THEN {[tag |-> "panic", path |-> Tail(pth)]}
            ELSE {[tag |-> "Some", dir |-> c, path |-> Tail(pth)]}
  ELSE {IF r.tag = "Some"
          THEN LET c == coordinate_to_direction(p, Head(r.path))
               IN IF c = "panic" THEN [tag |-> "panic", path |-> Tail(r.path)]
                  ELSE [tag |-> "Some", dir |-> c, path |-> Tail(r.path)]
          ELSE [tag |-> r.tag, path |-> pth]
        : r \in bfs(cs, p, "Unknown", 0)}

get_direction_pop_last(cs, p, d, pth) ==
  IF pth # <<>>
    THEN LET c == coordinate_to_direction(p, pth[Len(pth)])
             rest == SubSeq(pth, 1, Len(pth) - 1)
         IN IF c = "panic" THEN {[tag |-> "panic", path |-> rest]}
            ELSE {[tag |-> "Some", dir |-> c, path |-> rest]}
  ELSE IF Scan(cs, p, d) # "none"
    THEN {[tag |-> "Some", dir |-> Scan(cs, p, d), path |-> pth]}
  ELSE {IF r.tag = "Some"
          THEN LET c == coordinate_to_direction(p, Head(r.path))
               IN IF c = "panic" THEN [tag |-> "panic", path |-> Tail(r.path)]
                  ELSE [tag |-> "Some", dir |-> c, path |-> Tail(r.path)]
          ELSE [tag |-> r.tag, path |-> pth]
        : r \in bfs(cs, p, "Unknown", 0)}

\* Maze::get_direction: the set of possible outcomes
get_direction(cs, p, d, pth) ==
  IF pth # <<>>
    THEN LET c == coordinate_to_direction(p, Head(pth))
         IN IF c = "panic" THEN {[tag |-> "panic", path |-> Tail(pth)]}
            ELSE {[tag |-> "Some", dir |-> c, path |-> Tail(pth)]}
  ELSE IF Scan(cs, p, d) # "none"
    THEN {[tag |-> "Some", dir |-> Scan(cs, p, d), path |-> pth]}
  ELSE {IF r.tag = "Some"
          THEN LET c == coordinate_to_direction(p, Head(r.path))
               IN IF c = "panic" THEN [tag |-> "panic", path |-> Tail(r.path)]
                  ELSE [tag |-> "Some", dir |-> c, path |-> Tail(r.path)]
          ELSE [tag |-> r.tag, path |-> pth]
        : r \in bfs(cs, p, "Unknown", 0)}

\* MPU6050::new
MpuNew ==
  /\ running = FALSE
  /\ caller = "created"
  /\ reader = "none"
  /\ rounds = 0

\* Maze::new
Init ==
  /\ dir = "Up"
  /\ pos = <<0, 0>>
  /\ last_checkpoint = <<0, 0>>
  /\ cells = (<<0, 0>> :> NewCell(<<0, 0>>, "Start"))
  /\ path = <<>>
  /\ status = "ok"
  /\ op = "new"
  /\ ret = "-"
  /\ blackened = {}
  /\ steps = 0
  /\ MpuNew
  /\ open_dirs = <<>>

\* The number of calls the model follows: MaxSteps of a free caller,
\* MaxLoopSteps of the loop of test_mapping
StepLimit == IF DOMAIN open_dirs = {} THEN MaxSteps ELSE MaxLoopSteps

\* One call of the caller's control loop
Tick ==
  /\ steps < StepLimit
  /\ steps' = steps + 1
  /\ UNCHANGED mpu_vars
  /\ UNCHANGED open_dirs

move_one_overwrite ==
  /\ status = "ok"
  /\ Tick
  /\ op' = "move_one"
  /\ \E o \in get_direction(cells, pos, dir, path) :
       IF o.tag = "Some"
         THEN /\ dir' = o.dir
              /\ pos' = Step(pos, o.dir)
              /\ cells' = IF pos' \in DOMAIN cells
                            THEN [cells EXCEPT ![pos'].kind = "Empty"]
                            ELSE cells
              /\ path' = o.path
              /\ ret' = o.dir
              /\ status' = "ok"
       ELSE IF o.tag = "None"
         THEN /\ ret' = "None"
              /\ path' = o.path
              /\ UNCHANGED <<dir, pos, cells, status>>
       ELSE /\ status' = o.tag
            /\ ret' = "-"
            /\ path' = o.path
            /\ UNCHANGED <<dir, pos, cells>>
  /\ UNCHANGED <<last_checkpoint, blackened>>

\* Maze::move_one
move_one ==
  /\ status = "ok"
  /\ Tick
  /\ op' = "move_one"
  /\ \E o \in get_direction(cells, pos, dir, path) :
       IF o.tag = "Some"
         THEN /\ dir' = o.dir
              /\ pos' = Step(pos, o.dir)
              /\ cells' = IF pos' \in DOMAIN cells /\ cells[pos'].kind = "Unknown"
                            THEN [cells EXCEPT ![pos'].kind = "Empty"]
                            ELSE cells
              /\ path' = o.path
              /\ ret' = o.dir
              /\ status' = "ok"
       ELSE IF o.tag = "None"
         THEN /\ ret' = "None"
              /\ path' = o.path
              /\ UNCHANGED <<dir, pos, cells, status>>
       ELSE /\ status' = o.tag
            /\ ret' = "-"
            /\ path' = o.path
            /\ UNCHANGED <<dir, pos, cells>>
  /\ UNCHANGED <<last_checkpoint, blackened>>

\* add_cell: the coordinate normalizer, which rewrites the pos field of every cell
Normalize(cs, cell_pos) ==
  IF cell_pos[1] < 0
    THEN [k \in DOMAIN cs |-> [cs[k] EXCEPT !.pos = <<@[1] + 1, @[2]>>]]
  ELSE IF cell_pos[2] < 0
    THEN [k \in DOMAIN cs |-> [cs[k] EXCEPT !.pos = <<@[1], @[2] + 1>>]]
  ELSE cs

LinkExistingOneSided(cs, p, direction, cell_pos) ==
  [cs EXCEPT ![cell_pos] = add_neighbor(@, back(direction), p)]

\* add_cell: the branch of an existing cell at cell_pos (with p a stored cell)
LinkExisting(cs, p, direction, cell_pos) ==
  [[cs EXCEPT ![cell_pos] = add_neighbor(@, back(direction), p)]
      EXCEPT ![p] = add_neighbor(@, direction, cell_pos)]

add_cell_recreate(direction) ==
  /\ status = "ok"
  /\ Tick
  /\ op' = "add_cell"
  /\ ret' = "-"
  /\ LET cell_pos == Step(pos, direction)
     IN /\ pos \in DOMAIN cells
        /\ cell_pos \in DOMAIN cells \/ Cardinality(DOMAIN cells) < MaxCells
        /\ cells' = (cell_pos :> add_neighbor(NewCell(cell_pos, "Unknown"),
                                              back(direction), pos))
                    @@ [Normalize(cells, cell_pos) EXCEPT ![pos] =
                          add_neighbor(@, direction, cell_pos)]
        /\ status' = "ok"
  /\ UNCHANGED <<dir, pos, last_checkpoint, path, blackened>>

add_cell_dangling(direction) ==
  /\ status = "ok"
  /\ Tick
  /\ op' = "add_cell"
  /\ ret' = "-"
  /\ LET cell_pos == Step(pos, direction)
     IN IF cell_pos \in DOMAIN cells
          THEN IF back(direction) \notin DOMAIN cells[cell_pos].neighbors
                 THEN IF pos \in DOMAIN cells
                        THEN /\ cells' = LinkExisting(cells, pos, direction, cell_pos)
                             /\ status' = "ok"
                        ELSE /\ cells' = [cells EXCEPT ![cell_pos] =
                                             add_neighbor(@, back(direction), pos)]
                             /\ status' = "panic"
                 ELSE UNCHANGED <<cells, status>>
          ELSE /\ Cardinality(DOMAIN cells) < MaxCells
               /\ LET shifted == Normalize(cells, cell_pos)
                  IN IF pos \in DOMAIN cells
                       THEN /\ cells' = [shifted EXCEPT ![pos] =
                                           add_neighbor(@, direction, cell_pos)]
                            /\ status' = "ok"
                       ELSE /\ cells' = shifted
                            /\ status' = "panic"
  /\ UNCHANGED <<dir, pos, last_checkpoint, path, blackened>>

\* Maze::add_cell
add_cell(direction) ==
  /\ status = "ok"
  /\ Tick
  /\ op' = "add_cell"
  /\ ret' = "-"
  /\ LET cell_pos == Step(pos, direction)
     IN IF cell_pos \in DOMAIN cells
          THEN IF back(direction) \notin DOMAIN cells[cell_pos].neighbors
                 THEN IF pos \in DOMAIN cells
                        THEN /\ cells' = LinkExisting(cells, pos, direction, cell_pos)
                             /\ status' = "ok"
                        ELSE /\ cells' = [cells EXCEPT ![cell_pos] =
                                             add_neighbor(@, back(direction), pos)]
                             /\ status' = "panic"
                 ELSE UNCHANGED <<cells, status>>
          ELSE /\ Cardinality(DOMAIN cells) < MaxCells
               /\ LET shifted == Normalize(cells, cell_pos)
                  IN IF pos \in DOMAIN cells
                       THEN /\ cells' = (cell_pos :> add_neighbor(NewCell(cell_pos, "Unknown"),
                                                                  back(direction), pos))
                                        @@ [shifted EXCEPT ![pos] =
                                              add_neighbor(@, direction, cell_pos)]
                            /\ status' = "ok"
                       ELSE /\ cells' = shifted
                            /\ status' = "panic"
  /\ UNCHANGED <<dir, pos, last_checkpoint, path, blackened>>

\* The tagging operations: cells.get_mut(&self.pos).unwrap().kind = k
SetKind(name, k) ==
  /\ status = "ok"
  /\ Tick
  /\ op' = name
  /\ ret' = "-"
  /\ IF pos \in DOMAIN cells
       THEN /\ cells' = [cells EXCEPT ![pos].kind = k]
            /\ status' = "ok"
       ELSE /\ status' = "panic"
            /\ UNCHANGED cells

\* Maze::add_checkpoint
add_checkpoint ==
  /\ SetKind("add_checkpoint", "Checkpoint")
  /\ last_checkpoint' = IF pos \in DOMAIN cells THEN pos ELSE last_checkpoint
  /\ UNCHANGED <<dir, pos, path, blackened>>

\* Maze::add_victim
add_victim ==
  /\ SetKind("add_victim", "Victim")
  /\ UNCHANGED <<dir, pos, last_checkpoint, path, blackened>>

\* Maze::add_ramp
add_ramp ==
  /\ SetKind("add_ramp", "Ramp")
  /\ UNCHANGED <<dir, pos, last_checkpoint, path, blackened>>

add_blue_marks ==
  /\ SetKind("add_blue", "Blue")
  /\ last_checkpoint' = IF pos \in DOMAIN cells THEN pos ELSE last_checkpoint
  /\ UNCHANGED <<dir, pos, path, blackened>>

\* Maze::add_blue
add_blue ==
  /\ SetKind("add_blue", "Blue")
  /\ UNCHANGED <<dir, pos, last_checkpoint, path, blackened>>

RetreatForward(p, d) == Step(p, d)

\* add_black: the match that takes the position one step back
Retreat(p, d) ==
  CASE d = "Up" -> <<p[1], p[2] + 1>>
    [] d = "Down" -> <<p[1], p[2] - 1>>
    [] d = "Left" -> <<p[1] + 1, p[2]>>
    [] d = "Right" -> <<p[1] - 1, p[2]>>

add_black_remove ==
  /\ status = "ok"
  /\ Tick
  /\ op' = "add_black"
  /\ ret' = "-"
  /\ pos \in DOMAIN cells
  /\ cells' = [k \in DOMAIN cells \ {pos} |-> cells[k]]
  /\ status' = "ok"
  /\ pos' = Retreat(pos, dir)
  /\ blackened' = blackened \cup {pos}
  /\ UNCHANGED <<dir, last_checkpoint, path>>

\* Maze::add_black
add_black ==
  /\ SetKind("add_black", "Black")
  /\ pos' = IF pos \in DOMAIN cells THEN Retreat(pos, dir) ELSE pos
  /\ blackened' = IF pos \in DOMAIN cells THEN blackened \cup {pos} ELSE blackened
  /\ UNCHANGED <<dir, last_checkpoint, path>>

lack_of_progress_origin ==
  /\ status = "ok"
  /\ Tick
  /\ op' = "lack_of_progress"
  /\ ret' = "-"
  /\ pos' = <<0, 0>>
  /\ UNCHANGED <<dir, last_checkpoint, cells, path, status, blackened>>

\* Maze::lack_of_progress
lack_of_progress ==
  /\ status = "ok"
  /\ Tick
  /\ op' = "lack_of_progress"
  /\ ret' = "-"
  /\ pos' = last_checkpoint
  /\ UNCHANGED <<dir, last_checkpoint, cells, path, status, blackened>>

Next ==
  \/ move_one
  \/ \E d \in Directions : add_cell(d)
  \/ add_checkpoint
  \/ add_victim
  \/ add_ramp
  \/ add_blue
  \/ add_black
  \/ lack_of_progress

Spec == Init /\ [][Next]_vars

\* The engine after Maze::new(); add_cell(Down); add_black(): the origin is
\* Black and the position is the cell below it, still Unknown
RetreatedEngine ==
  /\ dir = "Up"
  /\ pos = <<0, 1>>
  /\ last_checkpoint = <<0, 0>>
  /\ cells = (<<0, 0>> :> [pos |-> <<0, 0>>, kind |-> "Black",
                           neighbors |-> ("Down" :> <<0, 1>>)])
              @@ (<<0, 1>> :> [pos |-> <<0, 1>>, kind |-> "Unknown",
                               neighbors |-> ("Up" :> <<0, 0>>)])
  /\ path = <<>>
  /\ status = "ok"
  /\ op = "add_black"
  /\ ret = "-"
  /\ blackened = {<<0, 0>>}

\* The calls that follow those two, counted from there
InitRetreated == RetreatedEngine /\ steps = 0 /\ MpuNew /\ open_dirs = <<>>

SpecRetreated == InitRetreated /\ [][Next]_vars

(***************************************************************************)
(* The MPU6050 driver of src/src/sensors/mpu6050.rs: the thread that owns  *)
(* the sensor and the reader thread that run() spawns.                     *)
(***************************************************************************)

\* The registers the read loop reads, in the order of the loop body
ReadOrder == <<"acc_x", "acc_y", "acc_z", "gyro_x", "gyro_y", "gyro_z">>

\* The stores of the loop body, each under its own lock
UpdateOrder == <<"yaw_add", "yaw_mod", "roll", "pitch">>

\* The stores before the loop, each under its own lock
ResetOrder == <<"reset_roll", "reset_pitch", "reset_yaw">>

ReaderInLoop ==
  reader \in {"test", "sleep"} \cup {ReadOrder[i] : i \in 1..6}
                \cup {UpdateOrder[i] : i \in 1..4}

\* MPU6050::run: calculate_error(..).expect(..), then thread::spawn and Ok(())
mpu_run ==
  /\ caller = "created"
  /\ \E calibrated \in BOOLEAN :
       IF calibrated
         THEN caller' = "ran" /\ reader' = ResetOrder[1]
         ELSE caller' = "panic" /\ reader' = reader
  /\ UNCHANGED <<running, rounds>>
  /\ UNCHANGED maze_vars

\* MPU6050::stop
mpu_stop ==
  /\ caller = "ran"
  /\ running' = FALSE
  /\ caller' = "stopped"
  /\ UNCHANGED <<reader, rounds>>
  /\ UNCHANGED maze_vars

\* reader thread: roll, pitch and yaw are set to 0.0, one after the other
reader_reset ==
  /\ \E i \in 1..3 :
       /\ reader = ResetOrder[i]
       /\ reader' = IF i < 3 THEN ResetOrder[i + 1] ELSE "set_running"
  /\ UNCHANGED <<running, caller, rounds>>
  /\ UNCHANGED maze_vars

\* reader thread: *running.lock().unwrap() = true
reader_set_running ==
  /\ reader = "set_running"
  /\ running' = TRUE
  /\ reader' = "test"
  /\ UNCHANGED <<caller, rounds>>
  /\ UNCHANGED maze_vars

\* reader thread: while *running.lock().unwrap()
reader_test ==
  /\ reader = "test"
  /\ reader' = IF running THEN ReadOrder[1] ELSE "exited"
  /\ UNCHANGED <<running, caller, rounds>>
  /\ UNCHANGED maze_vars

\* reader thread: one read_raw_data(..).expect("Failed to read raw data")
reader_read ==
  /\ \E i \in 1..6 :
       /\ reader = ReadOrder[i]
       /\ \E read_ok \in BOOLEAN :
            reader' = IF ~read_ok THEN "panic"
                      ELSE IF i < 6 THEN ReadOrder[i + 1] ELSE UpdateOrder[1]
  /\ UNCHANGED <<running, caller, rounds>>
  /\ UNCHANGED maze_vars

\* reader thread: yaw is advanced and wrapped, roll and pitch are stored
reader_update ==
  /\ \E i \in 1..4 :
       /\ reader = UpdateOrder[i]
       /\ reader' = IF i < 4 THEN UpdateOrder[i + 1] ELSE "sleep"
  /\ UNCHANGED <<running, caller, rounds>>
  /\ UNCHANGED maze_vars

\* reader thread: thread::sleep, then back to the loop test
reader_sleep ==
  /\ reader = "sleep"
  /\ reader' = "test"
  /\ rounds' = IF rounds < MaxRounds THEN rounds + 1 ELSE rounds
  /\ UNCHANGED <<running, caller>>
  /\ UNCHANGED maze_vars

ReaderStep ==
  \/ reader_reset
  \/ reader_set_running
  \/ reader_test
  \/ reader_read
  \/ reader_update
  \/ reader_sleep

NextMpu ==
  \/ mpu_run
  \/ mpu_stop
  \/ reader_reset
  \/ reader_set_running
  \/ reader_test
  \/ reader_read
  \/ reader_update
  \/ reader_sleep

\* The sensor threads, the scheduler running the reader thread while it can step
SpecMpu == Init /\ [][NextMpu]_vars /\ WF_vars(ReaderStep)

(***************************************************************************)
(* The loop of Maze::test_mapping run in a fixed maze: at each position    *)
(* the user enters the open directions, each is passed to add_cell, then   *)
(* move_one is called; the answer to "Is the next cell black?" is N.       *)
(***************************************************************************)
\* The positions of the mazes considered, the origin being the Start cell
Region == {<<0, 0>>, <<0, 0 - 1>>, <<1, 0 - 1>>, <<1, 0>>, <<0 - 1, 0>>}

\* The pairs of positions of Region a passage can join
Passages ==
  {{pd[1], Step(pd[1], pd[2])} :
     pd \in {x \in Region \X Directions : Step(x[1], x[2]) \in Region}}

\* The open directions of each position of the maze with passages E
OpenDirs(E) == [p \in Region |-> {d \in Directions : {p, Step(p, d)} \in E}]

Mazes == {OpenDirs(E) : E \in SUBSET Passages}

\* test_mapping: Maze::new() in one of the mazes
InitLoop ==
  /\ dir = "Up"
  /\ pos = <<0, 0>>
  /\ last_checkpoint = <<0, 0>>
  /\ cells = (<<0, 0>> :> NewCell(<<0, 0>>, "Start"))
  /\ path = <<>>
  /\ status = "ok"
  /\ op = "new"
  /\ ret = "-"
  /\ blackened = {}
  /\ steps = 0
  /\ MpuNew
  /\ open_dirs \in Mazes

\* The open directions of the current position not passed to add_cell yet
\* (add_cell of a direction already linked changes nothing)
ToReport ==
  IF pos \in DOMAIN open_dirs /\ pos \in DOMAIN cells
    THEN {d \in open_dirs[pos] : d \notin DOMAIN cells[pos].neighbors}
    ELSE {}

\* test_mapping: the for loop over the characters entered
loop_report ==
  /\ ret # "None"
  /\ \E d \in ToReport : add_cell(d)

\* test_mapping: the call of move_one; the loop breaks once it returns None
loop_move ==
  /\ ret # "None"
  /\ ToReport = {}
  /\ move_one

NextLoop ==
  \/ loop_report
  \/ loop_move

\* A call of the loop is possible: the program has not aborted, move_one has
\* not returned None, and the model still follows the calls
LoopRunning == status = "ok" /\ ret # "None" /\ steps < StepLimit

\* The loop runs on as long as it can (the user keeps answering): weak
\* fairness of NextLoop, with LoopRunning written for ENABLED <<NextLoop>>_vars
SpecLoop ==
  InitLoop /\ [][NextLoop]_vars /\ ([]<>(~LoopRunning) \/ []<><<NextLoop>>_vars)

TypeOK ==
  /\ dir \in Directions
  /\ status \in {"ok", "panic", "overflow"}
  /\ \A k \in DOMAIN cells : cells[k].kind \in Kinds

(***************************************************************************)
(* Auxiliary notions used by the properties                                *)
(***************************************************************************)
Adjacent(a, b) ==
  \/ a[1] = b[1] /\ (a[2] - b[2] = 1 \/ b[2] - a[2] = 1)
  \/ a[2] = b[2] /\ (a[1] - b[1] = 1 \/ b[1] - a[1] = 1)

LinkedFrom(cs, S) ==
  {cs[a].neighbors[d] : <<a, d>> \in {ad \in (S \cap DOMAIN cs) \X Directions :
                                        ad[2] \in DOMAIN cs[ad[1]].neighbors}}

RECURSIVE Closure(_, _)
Closure(cs, S) ==
  LET S1 == S \cup {n \in LinkedFrom(cs, S) : n \in DOMAIN cs /\ cs[n].kind # "Black"}
  IN IF S1 = S THEN S ELSE Closure(cs, S1)

\* The cells reachable from p over links, entering only non-Black cells
Reachable(cs, p) == Closure(cs, {p}) \cap DOMAIN cs

LinkCount(cs) ==
  Cardinality({ad \in (DOMAIN cs) \X Directions : ad[2] \in DOMAIN cs[ad[1]].neighbors})

\* The headings (or failures) move_one can answer with in the current state
Answers ==
  {IF o.tag = "Some" THEN o.dir ELSE o.tag : o \in get_direction(cells, pos, dir, path)}

SearchTargets == {"Unknown", "Start"}

(***************************************************************************)
(* C1: when no Unknown cell is reachable and Start is unreachable or is    *)
(* the current position, move_one terminates and returns "finished".       *)
(***************************************************************************)
Terminal(cs, p) ==
  /\ \A k \in Reachable(cs, p) : cs[k].kind # "Unknown"
  /\ \A k \in Reachable(cs, p) : cs[k].kind = "Start" => k = p

C1_FinishedWhenTerminal ==
  [][(op' = "move_one" /\ path = <<>> /\ Terminal(cells, pos))
       => (status' = "ok" /\ ret' = "None")]_vars

(***************************************************************************)
(* C2: the current position is always the key of a stored cell.            *)
(***************************************************************************)
C2_PosIsStoredCell == status = "ok" => pos \in DOMAIN cells

(***************************************************************************)
(* C3: every neighbor link A -D-> B has its counterpart B -D.back()-> A.   *)
(***************************************************************************)
C3_LinksMutual ==
  status = "ok" =>
    \A a \in DOMAIN cells : \A d \in DOMAIN cells[a].neighbors :
      LET b == cells[a].neighbors[d]
      IN /\ b \in DOMAIN cells
         /\ back(d) \in DOMAIN cells[b].neighbors
         /\ cells[b].neighbors[back(d)] = a

\* add_cell has just linked two cells that both existed, closing a square
C3_Witness ==
  /\ op = "add_cell"
  /\ status = "ok"
  /\ Cardinality(DOMAIN cells) = 4
  /\ LinkCount(cells) = 8

C5_ExactlyOneStart ==
  status = "ok" => {k \in DOMAIN cells : cells[k].kind = "Start"} = {<<0, 0>>}

(***************************************************************************)
(* C6: a pending route starts next to the current position and each later  *)
(* waypoint is next to the one before it.                                  *)
(***************************************************************************)
C6_RouteAdjacent ==
  (status = "ok" /\ path # <<>>) =>
    /\ Adjacent(pos, path[1])
    /\ \A i \in 2..Len(path) : Adjacent(path[i - 1], path[i])

(***************************************************************************)
(* C7: no path the breadth-first search returns, for target Unknown or     *)
(* Start, contains a cell that is Black at the time of the search.         *)
(***************************************************************************)
C7_NoBlackOnPath ==
  status = "ok" =>
    \A tar \in SearchTargets : \A pth \in BfsPaths(cells, pos, tar) :
      \A i \in 1..Len(pth) : cells[pth[i]].kind # "Black"

\* a search finds a route from a cell that has a linked Black neighbor
C7_Witness ==
  /\ status = "ok"
  /\ pos \in DOMAIN cells
  /\ \E d \in DOMAIN cells[pos].neighbors : cells[cells[pos].neighbors[d]].kind = "Black"
  /\ \E pth \in BfsPaths(cells, pos, "Unknown") : Len(pth) >= 2

(***************************************************************************)
(* C8: a cell once classified Black stays registered and no route planned  *)
(* by a later search contains it.                                          *)
(***************************************************************************)
C8_BlackForever ==
  status = "ok" =>
    /\ blackened \subseteq DOMAIN cells
    /\ \A tar \in SearchTargets : \A pth \in BfsPaths(cells, pos, tar) :
         \A i \in 1..Len(pth) : pth[i] \notin blackened

(***************************************************************************)
(* C9: every key under which a cell is stored has x >= 0 and y >= 0.       *)
(***************************************************************************)
C9_KeysNonNegative ==
  \A k \in DOMAIN cells : k[1] >= 0 /\ k[2] >= 0

(***************************************************************************)
(* C10: the heading move_one returns is a function of the engine state.    *)
(***************************************************************************)
C10_OneAnswer == status = "ok" => Cardinality(Answers) <= 1

(***************************************************************************)
(* C11: with no pending route and no linked Unknown neighbor, but some     *)
(* Unknown cell reachable over non-Black cells, move_one answers with the  *)
(* first hop of a route of the least number of hops to an Unknown cell.    *)
(***************************************************************************)
UnknownKeys(cs) == {k \in DOMAIN cs : cs[k].kind = "Unknown"}

RECURSIVE DistFrom(_, _, _, _)
\* The least number of hops from the set S to a cell of T, -1 if there is none
DistFrom(cs, S, T, n) ==
  IF S \cap T # {} THEN n
  ELSE LET S1 == S \cup {k \in LinkedFrom(cs, S) : k \in DOMAIN cs /\ cs[k].kind # "Black"}
       IN IF S1 = S THEN 0 - 1 ELSE DistFrom(cs, S1, T, n + 1)

\* route is a chain of links from p over stored non-Black cells
LinkedChain(cs, p, route) ==
  \A i \in 1..Len(route) :
    LET from == IF i = 1 THEN p ELSE route[i - 1]
    IN /\ route[i] \in DOMAIN cs
       /\ cs[route[i]].kind # "Black"
       /\ from \in DOMAIN cs
       /\ \E d \in DOMAIN cs[from].neighbors : cs[from].neighbors[d] = route[i]

SearchesForUnknown ==
  /\ path = <<>>
  /\ pos \in DOMAIN cells
  /\ Scan(cells, pos, dir) = "none"
  /\ Reachable(cells, pos) \cap (UnknownKeys(cells) \ {pos}) # {}

C11_NearestUnknown ==
  [][(op' = "move_one" /\ SearchesForUnknown)
       => /\ status' = "ok"
          /\ ret' \in Directions
          /\ LET route == <<pos'>> \o path'
             IN /\ Len(route) = DistFrom(cells, {pos}, UnknownKeys(cells) \ {pos}, 0)
                /\ cells[route[Len(route)]].kind = "Unknown"
                /\ LinkedChain(cells, pos, route)]_vars

\* move_one has planned a route of two hops or more to an Unknown cell
C11_Witness ==
  /\ op = "move_one"
  /\ status = "ok"
  /\ path # <<>>
  /\ path[Len(path)] \in UnknownKeys(cells)

\* the engine of InitRetreated is one the calls from Maze::new() produce
RetreatedEngineNotReached == ~RetreatedEngine

(***************************************************************************)
(* C12: with no pending route, move_one takes the first of the headings    *)
(* right, straight, left, back whose linked neighbor is an Unknown cell.   *)
(***************************************************************************)
Priority(d) == <<right(d), d, left(d), back(d)>>

C12_ScanPriority ==
  [][(op' = "move_one" /\ path = <<>> /\ pos \in DOMAIN cells)
       => \A i \in 1..4 :
            (/\ UnknownNeighbor(cells, pos, Priority(dir)[i])
             /\ \A j \in 1..(i - 1) : ~UnknownNeighbor(cells, pos, Priority(dir)[j]))
            => (status' = "ok" /\ ret' = Priority(dir)[i] /\ path' = <<>>)]_vars

\* the scan has taken one Unknown neighbor and left another one Unknown
C12_Witness ==
  /\ op = "move_one"
  /\ status = "ok"
  /\ ret \in Directions
  /\ path = <<>>
  /\ Step(pos, back(ret)) \in DOMAIN cells
  /\ \E d \in Directions : UnknownNeighbor(cells, Step(pos, back(ret)), d)

(***************************************************************************)
(* C13: lack_of_progress sets the position to the one recorded by the most *)
(* recent add_checkpoint (only add_checkpoint records one) and leaves the  *)
(* heading and the cells as they are.                                      *)
(***************************************************************************)
C13_BackToCheckpoint ==
  [][/\ op' = "lack_of_progress"
          => /\ pos' = last_checkpoint
             /\ dir' = dir
             /\ cells' = cells
             /\ status' = "ok"
     /\ (op' = "add_checkpoint" /\ status' = "ok") => last_checkpoint' = pos
     /\ op' # "add_checkpoint" => last_checkpoint' = last_checkpoint]_vars

\* lack_of_progress has brought the position back to a checkpoint off the origin
C13_Witness ==
  /\ op = "lack_of_progress"
  /\ pos = last_checkpoint
  /\ last_checkpoint # <<0, 0>>
  /\ cells[last_checkpoint].kind = "Checkpoint"
  /\ dir # "Up"

(***************************************************************************)
(* C14: add_cell(d) with the neighbor in direction d already stored and    *)
(* linked changes nothing.                                                 *)
(***************************************************************************)
AlreadyLinked(d) ==
  /\ pos \in DOMAIN cells
  /\ d \in DOMAIN cells[pos].neighbors
  /\ cells[pos].neighbors[d] \in DOMAIN cells

C14_AddCellIdempotent ==
  [][\A d \in Directions :
       (AlreadyLinked(d) /\ add_cell(d))
         => UNCHANGED <<dir, pos, last_checkpoint, cells, path, status, blackened>>]_vars

\* add_cell has been called twice in a row and the second call changed nothing
C14_Witness ==
  /\ op = "add_cell"
  /\ status = "ok"
  /\ steps = 2
  /\ Cardinality(DOMAIN cells) = 2
  /\ LinkCount(cells) = 2

(***************************************************************************)
(* C15: on a fresh engine add_cell(Up) creates one Unknown cell directly   *)
(* Up of Start, linked both ways; the move_one that follows returns Up,    *)
(* occupies that cell and makes it Empty, Start keeping its kind.          *)
(***************************************************************************)
C15_ScenarioA ==
  LET up == Step(<<0, 0>>, "Up")
  IN /\ (steps = 1 /\ op = "add_cell" /\ up \in DOMAIN cells)
          => /\ DOMAIN cells = {<<0, 0>>, up}
             /\ cells[up].kind = "Unknown"
             /\ cells[<<0, 0>>].kind = "Start"
             /\ cells[<<0, 0>>].neighbors = ("Up" :> up)
             /\ cells[up].neighbors = ("Down" :> <<0, 0>>)
             /\ pos = <<0, 0>>
     /\ (steps = 2 /\ op = "move_one" /\ up \in DOMAIN cells)
          => /\ status = "ok"
             /\ ret = "Up"
             /\ pos = up
             /\ DOMAIN cells = {<<0, 0>>, up}
             /\ cells[up].kind = "Empty"
             /\ cells[<<0, 0>>].kind = "Start"

\* add_cell(Up) and then move_one have run on the fresh engine
C15_Witness ==
  /\ steps = 2
  /\ op = "move_one"
  /\ pos = Step(<<0, 0>>, "Up")
  /\ Step(<<0, 0>>, "Up") \in DOMAIN cells

(***************************************************************************)
(* C16: a tagging call or add_cell made where no cell is stored at the     *)
(* current position returns a typed "invalid operation" outcome.           *)
(***************************************************************************)
C16_InvalidOperationReported ==
  [][(/\ op' \in {"add_checkpoint", "add_victim", "add_ramp", "add_blue",
                  "add_black", "add_cell"}
      /\ pos \notin DOMAIN cells)
       => (status' = "ok" /\ ret' = "Invalid")]_vars

(***************************************************************************)
(* C17: a popped waypoint that is not adjacent aborts the call, and a      *)
(* search without a route is answered with the absent value.               *)
(***************************************************************************)
C17_LoudOnlyOnBadWaypoint ==
  [][op' = "move_one"
       => /\ (path # <<>> /\ ~Adjacent(pos, path[1])) => status' = "panic"
          /\ (path = <<>> /\ Scan(cells, pos, dir) = "none" /\ Terminal(cells, pos))
               => (status' = "ok" /\ ret' = "None")]_vars

(***************************************************************************)
(* C18: every stored cell that is not Black is connected to the Start cell *)
(* by links over non-Black cells.                                          *)
(***************************************************************************)
C18_ConnectedThroughStart ==
  status = "ok" =>
    \A k \in DOMAIN cells :
      cells[k].kind # "Black" =>
        \E s \in DOMAIN cells : cells[s].kind = "Start" /\ k \in Reachable(cells, s)

(***************************************************************************)
(* C19: a kind only moves away from Unknown: cells are created, Unknown,   *)
(* by add_cell alone; move_one changes only the newly occupied cell, from  *)
(* Unknown to Empty; no classified cell becomes Unknown again.             *)
(***************************************************************************)
C19_AwayFromUnknown ==
  [][/\ \A k \in DOMAIN cells \cap DOMAIN cells' :
          cells[k].kind # "Unknown" => cells'[k].kind # "Unknown"
     /\ \A k \in DOMAIN cells' \ DOMAIN cells :
          op' = "add_cell" /\ cells'[k].kind = "Unknown"
     /\ op' = "move_one"
          => \A k \in DOMAIN cells \cap DOMAIN cells' :
               cells'[k].kind # cells[k].kind
                 => (k = pos' /\ cells[k].kind = "Unknown" /\ cells'[k].kind = "Empty")]_vars

\* move_one has occupied a classified cell, which kept its kind
C19_Witness ==
  /\ op = "move_one"
  /\ status = "ok"
  /\ ret \in Directions
  /\ pos \in DOMAIN cells
  /\ cells[pos].kind \notin {"Unknown", "Empty"}
  /\ \E k \in DOMAIN cells : cells[k].kind = "Empty"

(***************************************************************************)
(* C20: no cell is ever removed from the store, a Black one included.      *)
(***************************************************************************)
C20_NeverRemoved ==
  [][/\ DOMAIN cells \subseteq DOMAIN cells'
     /\ \A k \in DOMAIN cells : cells[k].kind = "Black" => k \in DOMAIN cells'
     /\ blackened' \subseteq DOMAIN cells']_vars

\* add_black has classified a cell of a store of three cells or more
C20_Witness ==
  /\ op = "add_black"
  /\ status = "ok"
  /\ Cardinality(DOMAIN cells) >= 3
  /\ \E k \in DOMAIN cells : cells[k].kind = "Black"

(***************************************************************************)
(* C21: a normalizer run inside add_cell changes no neighbor relation and  *)
(* no kind, and shifts the position stored for each cell, the positions    *)
(* its links name, the current position, the last checkpoint and the       *)
(* pending route by one and the same vector (or none of them).             *)
(***************************************************************************)
Shift(p, v) == <<p[1] + v[1], p[2] + v[2]>>

ShiftedBy(v) ==
  /\ pos' = Shift(pos, v)
  /\ last_checkpoint' = Shift(last_checkpoint, v)
  /\ path' = [i \in 1..Len(path) |-> Shift(path[i], v)]
  /\ \A k \in DOMAIN cells :
       /\ Shift(k, v) \in DOMAIN cells'
       /\ cells'[Shift(k, v)].pos = Shift(cells[k].pos, v)
       /\ cells'[Shift(k, v)].kind = cells[k].kind
       /\ \A d \in DOMAIN cells[k].neighbors :
            /\ d \in DOMAIN cells'[Shift(k, v)].neighbors
            /\ cells'[Shift(k, v)].neighbors[d] = Shift(cells[k].neighbors[d], v)

C21_NormalizerConsistent ==
  [][(op' = "add_cell" /\ status' = "ok")
       => \E v \in {<<0, 0>>, <<1, 0>>, <<0, 1>>} : ShiftedBy(v)]_vars

(***************************************************************************)
(* C22: add_checkpoint, add_victim, add_ramp and add_blue set the kind of  *)
(* the current cell and change nothing else, except that add_checkpoint    *)
(* also records the current position as the last checkpoint.               *)
(***************************************************************************)
TagKind ==
  ("add_checkpoint" :> "Checkpoint") @@ ("add_victim" :> "Victim")
    @@ ("add_ramp" :> "Ramp") @@ ("add_blue" :> "Blue")

C22_TagsCurrentCellOnly ==
  [][(op' \in DOMAIN TagKind /\ status' = "ok")
       => /\ pos \in DOMAIN cells
          /\ DOMAIN cells' = DOMAIN cells
          /\ cells'[pos].kind = TagKind[op']
          /\ cells'[pos].neighbors = cells[pos].neighbors
          /\ \A k \in DOMAIN cells \ {pos} : cells'[k] = cells[k]
          /\ pos' = pos
          /\ dir' = dir
          /\ path' = path
          /\ last_checkpoint' = IF op' = "add_checkpoint" THEN pos ELSE last_checkpoint]_vars

\* add_blue has re-tagged the cell of the last checkpoint, away from the origin
C22_Witness ==
  /\ op = "add_blue"
  /\ status = "ok"
  /\ pos = last_checkpoint
  /\ pos # <<0, 0>>
  /\ cells[pos].kind = "Blue"

(***************************************************************************)
(* C23: the transforms of Direction form a cyclic group of order 4, for    *)
(* the heading the engine holds and for every direction.                   *)
(***************************************************************************)
C23_DirectionGroup ==
  /\ right(left(dir)) = dir
  /\ \A d \in Directions :
       /\ back(back(d)) = d
       /\ right(left(d)) = d
       /\ left(right(d)) = d
       /\ right(right(d)) = back(d)
       /\ right(right(right(right(d)))) = d

\* move_one has turned the heading to the one three left turns from Up
C23_Witness ==
  /\ op = "move_one"
  /\ status = "ok"
  /\ ret = dir
  /\ dir = left(left(left("Up")))

(***************************************************************************)
(* C24: once stop() has been called after run() returned, the running flag *)
(* stays false and the reader thread leaves its read loop.                 *)
(***************************************************************************)
C24_StopIsFinal ==
  [][(caller = "stopped" /\ ~running) => ~running']_vars

C24_ReaderLeavesLoop == (caller = "stopped") ~> ~ReaderInLoop

(***************************************************************************)
(* C25: with no Unknown cell reachable and the Start cell reachable and    *)
(* not current, move_one takes the first hop of a shortest non-Black route *)
(* to Start and keeps the rest pending; the moves that follow it end on    *)
(* the Start cell.                                                         *)
(***************************************************************************)
StartKeys(cs) == {k \in DOMAIN cs : cs[k].kind = "Start"}

GoesHome ==
  /\ path = <<>>
  /\ pos \in DOMAIN cells
  /\ Reachable(cells, pos) \cap (UnknownKeys(cells) \ {pos}) = {}
  /\ Reachable(cells, pos) \cap (StartKeys(cells) \ {pos}) # {}

C25_ReturnsHome ==
  [][/\ (op' = "move_one" /\ GoesHome)
          => /\ status' = "ok"
             /\ ret' \in Directions
             /\ pos' = Step(pos, ret')
             /\ LET route == <<pos'>> \o path'
                IN /\ Len(route) = DistFrom(cells, {pos}, StartKeys(cells), 0)
                   /\ route[Len(route)] \in StartKeys(cells)
                   /\ LinkedChain(cells, pos, route)
     /\ (/\ op' = "move_one"
         /\ path # <<>>
         /\ path[Len(path)] \in StartKeys(cells)
         /\ Adjacent(pos, path[1]))
          => /\ status' = "ok"
             /\ pos' = path[1]
             /\ path' = Tail(path)
             /\ path' = <<>> => pos' \in StartKeys(cells')]_vars

\* move_one has arrived on the Start cell, which only a route home does
C25_Witness ==
  /\ op = "move_one"
  /\ status = "ok"
  /\ ret \in Directions
  /\ path = <<>>
  /\ pos \in StartKeys(cells)

(***************************************************************************)
(* C26: with a pending route move_one removes exactly its first waypoint   *)
(* and heads for it, whatever the neighbors are, and runs no search; a     *)
(* waypoint that is not adjacent has no heading and aborts the call.       *)
(***************************************************************************)
C26_RouteFirst ==
  [][(op' = "move_one" /\ path # <<>>)
       => /\ path' = Tail(path)
          /\ IF Adjacent(pos, path[1])
               THEN /\ status' = "ok"
                    /\ ret' \in Directions
                    /\ Step(pos, ret') = path[1]
                    /\ pos' = path[1]
                    /\ dir' = ret'
               ELSE status' = "panic"]_vars

\* move_one has followed the route onto a classified cell although the cell
\* it left has a linked Unknown neighbor
C26_Witness ==
  /\ op = "move_one"
  /\ status = "ok"
  /\ ret \in Directions
  /\ pos \in DOMAIN cells
  /\ cells[pos].kind \notin {"Unknown", "Empty"}
  /\ Step(pos, back(ret)) \in DOMAIN cells
  /\ \E d \in Directions : UnknownNeighbor(cells, Step(pos, back(ret)), d)

(***************************************************************************)
(* C27: a planned route is walked one waypoint per move_one, in order and  *)
(* without repetition, add_cell calls in between changing nothing of it;   *)
(* it is empty exactly when the last waypoint, the target, is occupied.    *)
(***************************************************************************)
RouteChained(p, route) ==
  /\ \A i \in 1..Len(route) :
       Adjacent(IF i = 1 THEN p ELSE route[i - 1], route[i])
  /\ \A i, j \in 1..Len(route) : route[i] = route[j] => i = j
  /\ \A i \in 1..Len(route) : route[i] # p

C27_RouteConsumedInOrder ==
  [][/\ (op' = "move_one" /\ path = <<>> /\ status' = "ok" /\ path' # <<>>)
          => /\ RouteChained(pos, <<pos'>> \o path')
             /\ cells[path'[Len(path')]].kind \in SearchTargets
     /\ (op' = "move_one" /\ path # <<>> /\ RouteChained(pos, path))
          => /\ status' = "ok"
             /\ pos' = path[1]
             /\ path' = Tail(path)
             /\ RouteChained(pos', path')
     /\ (op' = "add_cell" /\ status' = "ok")
          => (pos' = pos /\ path' = path)]_vars

\* a route of three waypoints or more is under way
C27_Witness ==
  /\ op = "move_one"
  /\ status = "ok"
  /\ Len(path) >= 2
  /\ RouteChained(pos, path)

(***************************************************************************)
(* C28: a move_one that returns heading h sets the heading to h, moves the *)
(* position by the delta of h, turns the newly occupied cell Empty if it   *)
(* was Unknown and changes nothing else of the map nor the last            *)
(* checkpoint; one that returns "finished" changes nothing.                *)
(***************************************************************************)
Delta(h) ==
  CASE h = "Up" -> <<0, 0 - 1>>
    [] h = "Down" -> <<0, 1>>
    [] h = "Left" -> <<0 - 1, 0>>
    [] h = "Right" -> <<1, 0>>

C28_MoveEffect ==
  [][op' = "move_one"
       => /\ ret' \in Directions
               => /\ status' = "ok"
                  /\ dir' = ret'
                  /\ pos' = Shift(pos, Delta(ret'))
                  /\ DOMAIN cells' = DOMAIN cells
                  /\ \A k \in DOMAIN cells :
                       cells'[k] = IF k = pos' /\ cells[k].kind = "Unknown"
                                     THEN [cells[k] EXCEPT !.kind = "Empty"]
                                     ELSE cells[k]
                  /\ last_checkpoint' = last_checkpoint
          /\ ret' = "None"
               => UNCHANGED <<dir, pos, cells, last_checkpoint>>]_vars

\* move_one has gone Left onto a cell that was Unknown
C28_Witness ==
  /\ op = "move_one"
  /\ status = "ok"
  /\ ret = "Left"
  /\ pos \in DOMAIN cells
  /\ cells[pos].kind = "Empty"

(***************************************************************************)
(* C29: add_cell(d) from a stored cell leaves a cell at the adjacent       *)
(* position, Unknown if it is new, linked with the current cell in d and   *)
(* d.back(); kinds of the cells there were, heading, pending route,        *)
(* current cell and last checkpoint stay.                                  *)
(***************************************************************************)
C29_AddCellEffect ==
  [][\A d \in Directions :
       (pos \in DOMAIN cells /\ add_cell(d))
         => LET c == Step(pos, d)
            IN /\ status' = "ok"
               /\ c \in DOMAIN cells'
               /\ c \notin DOMAIN cells => cells'[c].kind = "Unknown"
               /\ DOMAIN cells' = DOMAIN cells \cup {c}
               /\ d \in DOMAIN cells'[pos].neighbors
               /\ cells'[pos].neighbors[d] = c
               /\ back(d) \in DOMAIN cells'[c].neighbors
               /\ cells'[c].neighbors[back(d)] = pos
               /\ \A k \in DOMAIN cells : cells'[k].kind = cells[k].kind
               /\ UNCHANGED <<dir, pos, path, last_checkpoint>>]_vars

\* add_cell has linked the current cell with a cell that was stored already
C29_Witness ==
  /\ op = "add_cell"
  /\ status = "ok"
  /\ pos \in DOMAIN cells
  /\ Cardinality(DOMAIN cells) = 4
  /\ LinkCount(cells) = 8
  /\ \E d \in DOMAIN cells[pos].neighbors :
       cells[cells[pos].neighbors[d]].kind # "Unknown"

(***************************************************************************)
(* C30: move_one never moves the position onto a Black cell.               *)
(***************************************************************************)
C30_NeverOntoBlack ==
  [][(op' = "move_one" /\ status' = "ok" /\ ret' \in Directions /\ pos' \in DOMAIN cells')
       => cells'[pos'].kind # "Black"]_vars

(***************************************************************************)
(* C31: whenever move_one returns heading h, the cell occupied before the  *)
(* call has a link in direction h to the cell occupied after it.           *)
(***************************************************************************)
C31_NeverCrossesWall ==
  [][(op' = "move_one" /\ status' = "ok" /\ ret' \in Directions)
       => /\ pos \in DOMAIN cells
          /\ ret' \in DOMAIN cells[pos].neighbors
          /\ cells[pos].neighbors[ret'] = pos']_vars

(***************************************************************************)
(* C33: a link stored at the cell with key p for direction D names the     *)
(* position p plus the delta of D, and that position is the key of a       *)
(* stored cell, in every state the engine has not aborted in.              *)
(***************************************************************************)
C33_LinksNameAdjacentCells ==
  status = "ok" =>
    \A p \in DOMAIN cells :
      \A D \in DOMAIN cells[p].neighbors :
        /\ D \in Directions
        /\ cells[p].neighbors[D] = Shift(p, Delta(D))
        /\ cells[p].neighbors[D] \in DOMAIN cells

\* a cell away from the origin holds links in two directions or more
C33_Witness ==
  /\ status = "ok"
  /\ \E p \in DOMAIN cells :
       /\ p # <<0, 0>>
       /\ Cardinality(DOMAIN cells[p].neighbors) >= 2

(***************************************************************************)
(* C34: the last-checkpoint position is the key of a stored cell whose     *)
(* kind is not Black.                                                      *)
(***************************************************************************)
C34_CheckpointNotBlack ==
  status = "ok" =>
    /\ last_checkpoint \in DOMAIN cells
    /\ cells[last_checkpoint].kind # "Black"

(***************************************************************************)
(* C32: the loop of test_mapping in a fixed finite maze, without add_black *)
(* and lack_of_progress, eventually has occupied every cell of the maze    *)
(* reachable from Start and stands on the Start cell with no Unknown cell  *)
(* left.                                                                   *)
(***************************************************************************)
RECURSIVE MazeClosure(_)
\* The positions of the maze joined to the positions S by open directions
MazeClosure(S) ==
  LET S1 == S \cup {Step(p, d) : <<p, d>> \in {pd \in S \X Directions : pd[2] \in open_dirs[pd[1]]}}
  IN IF S1 = S THEN S ELSE MazeClosure(S1)

Explored ==
  /\ pos = <<0, 0>>
  /\ pos \in StartKeys(cells)
  /\ UnknownKeys(cells) = {}
  /\ \A p \in MazeClosure({<<0, 0>>}) : p \in DOMAIN cells

C32_ExplorationCompletes == <>Explored

\* the loop is back on Start after a maze of five cells, with a cycle, was explored
C32_Witness ==
  /\ Explored
  /\ op = "move_one"
  /\ status = "ok"
  /\ Cardinality(DOMAIN cells) = 5
  /\ LinkCount(cells) = 10

\* the step limit of the loop never stops a loop that is still exploring
C32_LoopNotCut == (status = "ok" /\ ~Explored) => steps < MaxLoopSteps

====
